---- MODULE Spec2Model ----
(***************************************************************************)
(* Hindustani flute note detector (src/main.py).                           *)
(*                                                                         *)
(* main() stores the tonic in the global n_Sa and creates the three       *)
(* display placeholders; process_audio(frequency) runs on the audio       *)
(* callback, reads n_Sa twice (lines 43 and 52) and writes the            *)
(* placeholders.                                                           *)
(*                                                                         *)
(* Units.  Every pitch quantity of process_audio (n, d, m, n_exact,        *)
(* cents) is held in cents, 1/100 of a semitone, so the source's          *)
(* semitone numbers appear multiplied by 100: 69 is 6900, 12 is 1200.      *)
(* The global n_Sa stays a semitone number, as in scale_to_midi.           *)
(*                                                                         *)
(* A frequency sample is a record [unit, v]:                               *)
(*   unit "NaN"  : not a number                        (v = 0)             *)
(*   unit "Inf"  : +infinity (v = 1) or -infinity (v = -1)                 *)
(*   unit "Hz"   : v / 10000 Hz, a fixed-point value                       *)
(*   unit "cent" : the frequency 440 * 2^((v - 6900) / 1200) Hz            *)
(***************************************************************************)
EXTENDS Integers, Sequences, FiniteSets, TLC

\* n_Sa and display are the globals; the rest is the state of the call of
\* process_audio in progress: its position pc, how it ended (status), its
\* argument and locals, and three records of what it did: the number of
\* np.log2 evaluations and the values of n_Sa it read at lines 43 and 52.
VARIABLES n_Sa, display, pc, status, frequency, log2_calls, read43, read52,
          n, d, k, m, swar, k_adjust, saptak, n_exact, abs_cents, clarity

vars == <<n_Sa, display, pc, status, frequency, log2_calls, read43, read52,
          n, d, k, m, swar, k_adjust, saptak, n_exact, abs_cents, clarity>>

locals == <<read43, read52,
            n, d, k, m, swar, k_adjust, saptak, n_exact, abs_cents, clarity>>

\* ---------------------------------------------------------------- bounds
\* Exact semitone pitches MinNote..MaxNote and detuned pitches around the
\* notes DetuneLow..DetuneHigh are offered to the callback.  With the twelve
\* tonics one detuned note already lands on every position of the octave.
MinNote == 46

MaxNote == 96

DetuneLow == 64

DetuneHigh == 66

\* ------------------------------------------------------- global constants
scale_to_midi ==
    ("C" :> 60) @@ ("C#" :> 61) @@ ("D" :> 62) @@ ("D#" :> 63) @@
    ("E" :> 64) @@ ("F" :> 65) @@ ("F#" :> 66) @@ ("G" :> 67) @@
    ("G#" :> 68) @@ ("A" :> 69) @@ ("A#" :> 70) @@ ("B" :> 71)

swar_semitones == <<0, 2, 4, 5, 7, 9, 11>>

swar_names == <<"Sa", "Re", "Ga", "Ma", "Pa", "Dha", "Ni">>

saptak_names == (-1 :> "Mandra") @@ (0 :> "Madhya") @@ (1 :> "Taar")

swar_to_semitone ==
    [w \in {swar_names[i] : i \in 1..7} |->
        swar_semitones[CHOOSE i \in 1..7 : swar_names[i] = w]]

\* ------------------------------------------------------------ arithmetic
Abs(x) == IF x < 0 THEN -x ELSE x

Min(a, b) == IF a < b THEN a ELSE b

\* Variant of FloorDiv12 that truncates toward zero, as int(d / 12) would.
TruncDiv12(x) == IF x >= 0 THEN x \div 1200 ELSE -((-x) \div 1200)

\* int(np.floor(d / 12)) with d in cents: rounds toward minus infinity.
FloorDiv12(x) == x \div 1200

\* np.log2 at the fixed-point Hz samples, as 6900 + 1200*log2(v/4400000)
\* rounded to a whole cent (15 Hz: 1050.64, 19.9999 Hz: 1548.67,
\* 20 Hz: 1548.68, 20.0001 Hz: 1548.69, 261.63 Hz: 6000.03).
HzPitch ==
    (150000 :> 1051) @@ (199999 :> 1549) @@ (200000 :> 1549) @@
    (200001 :> 1549) @@ (2616300 :> 6000) @@ (4400000 :> 6900) @@
    (8800000 :> 8100)

\* 1200 * np.log2(f / 440), in cents, of a positive finite sample.
Log2Cents(f) ==
    IF f.unit = "cent" THEN f.v - 6900 ELSE HzPitch[f.v] - 6900

\* The pitch of 20 Hz is 1548.68 cents: a "cent" sample exceeds 20 Hz
\* exactly when its pitch is above 1548.
Pitch20 == 1548

\* Variant of GreaterThan20 that tests frequency >= 20.
AtLeast20(f) ==
    CASE f.unit = "NaN" -> FALSE
      [] f.unit = "Inf" -> f.v > 0
      [] f.unit = "Hz" -> f.v >= 200000
      [] OTHER -> f.v > Pitch20

\* frequency > 20 (line 40); every comparison with NaN is false.
GreaterThan20(f) ==
    CASE f.unit = "NaN" -> FALSE
      [] f.unit = "Inf" -> f.v > 0
      [] f.unit = "Hz" -> f.v > 200000
      [] OTHER -> f.v > Pitch20

\* ------------------------------------------------------ find_closest_swar
semitones == swar_semitones \o <<12>>

distances(mm) ==
    [i \in 1..8 |-> Min(Abs(mm - 100 * semitones[i]),
                        1200 - Abs(mm - 100 * semitones[i]))]

\* Variant of Scan that keeps the last minimum.
RECURSIVE ScanLast(_, _, _)
ScanLast(seq, i, best) ==
    IF i > Len(seq) THEN best
    ELSE ScanLast(seq, i + 1, IF seq[i] <= seq[best] THEN i ELSE best)

\* np.argmin: a linear scan that keeps the first minimum.  Indices are
\* 1-based here, so the source's index 7 (the marker 12) is index 8.
RECURSIVE Scan(_, _, _)
Scan(seq, i, best) ==
    IF i > Len(seq) THEN best
    ELSE Scan(seq, i + 1, IF seq[i] < seq[best] THEN i ELSE best)

argminLast(seq) == ScanLast(seq, 2, 1)

argmin(seq) == Scan(seq, 2, 1)

find_closest_swar(mm) ==
    LET min_dist_idx == argmin(distances(mm))
    IN  IF min_dist_idx = 8 THEN <<"Sa", 1>>
        ELSE <<swar_names[min_dist_idx], 0>>

\* ---------------------------------------------------------- process_audio
\* Variant of SaptakLabel without the generic label.
SaptakLabelNoDefault(kk) ==
    IF kk \in DOMAIN saptak_names THEN saptak_names[kk] ELSE "Madhya"

\* saptak_names.get(k, f"Saptak {k}")
SaptakLabel(kk) ==
    IF kk \in DOMAIN saptak_names THEN saptak_names[kk]
    ELSE "Saptak " \o ToString(kk)

\* Variant of ExactNote that leaves the octave out.
ExactNoteNoOctave(tonic, kk, semitone_offset) ==
    100 * tonic + 100 * semitone_offset

\* n_exact = n_Sa + 12 * k + semitone_offset, in cents.
ExactNote(tonic, kk, semitone_offset) ==
    100 * tonic + 1200 * kk + 100 * semitone_offset

\* f_exact = 440 * 2**((n_exact - 69) / 12)
ExactFrequency(ne) == [unit |-> "cent", v |-> ne]

\* Variant of Clarity with inclusive thresholds.
ClarityInclusive(ac) ==
    IF ac <= 10 THEN "green" ELSE IF ac <= 20 THEN "yellow" ELSE "red"

\* Lines 57-62.
Clarity(ac) ==
    IF ac < 10 THEN "green" ELSE IF ac < 20 THEN "yellow" ELSE "red"

\* The placeholders as st.empty() leaves them, and as the two branches of
\* process_audio write them.  The digits of the frequency line are not
\* kept, only which of its two texts is written.
Blank == [freq |-> "", saptak |-> "", swar |-> "", color |-> ""]

NoSound == [freq |-> "No sound detected", saptak |-> "-", swar |-> "-",
            color |-> ""]

Shown(sap, sw, col) == [freq |-> "Hz", saptak |-> sap, swar |-> sw,
                        color |-> col]

\* ----------------------------------------------------------------- inputs
NaN == [unit |-> "NaN", v |-> 0]

PosInf == [unit |-> "Inf", v |-> 1]

NegInf == [unit |-> "Inf", v |-> -1]

HzSamples ==
    {[unit |-> "Hz", v |-> h] :
        h \in {-4400000, -1, 0, 1, 150000, 199999, 200000, 200001,
               2616300, 4400000, 8800000}}

Detunes == {1, 9, 10, 11, 19, 20, 21, 49, 50, 51, 79, 80, 81, 89, 90, 91, 99}

\* Pitches around the 20 Hz floor (19.45, 19.99 and 20.004 Hz).
LowPitchSamples == {[unit |-> "cent", v |-> p] : p \in {1500, 1548, 1549}}

PitchSamples ==
    {[unit |-> "cent", v |-> 100 * note] : note \in MinNote..MaxNote}
    \cup {[unit |-> "cent", v |-> 100 * note + c] :
              note \in DetuneLow..DetuneHigh, c \in Detunes}

\* The value of the locals while no frame is being processed.
NoFrame == [unit |-> "none", v |-> 0]

Frequencies ==
    {NaN, PosInf, NegInf} \cup HzSamples \cup LowPitchSamples
    \cup PitchSamples

\* ------------------------------------------------------------------ state
Init ==
    /\ n_Sa \in {scale_to_midi[s] : s \in DOMAIN scale_to_midi}
    /\ display = Blank
    /\ pc = "idle"
    /\ status = "none"
    /\ frequency = NoFrame
    /\ log2_calls = 0
    /\ read43 = 0 /\ read52 = 0
    /\ n = 0 /\ d = 0 /\ k = 0 /\ m = 0
    /\ swar = "" /\ k_adjust = 0 /\ saptak = ""
    /\ n_exact = 0 /\ abs_cents = 0 /\ clarity = ""

\* main(): a (re)run of the script after a scale selection stores the
\* tonic and creates fresh placeholders.
Main(scale) ==
    /\ n_Sa' = scale_to_midi[scale]
    /\ display' = Blank
    /\ UNCHANGED <<pc, status, frequency, log2_calls, locals>>

\* process_audio(frequency), entry and the test of line 40; the else
\* branch (lines 68-72) writes the placeholders.  The content earlier
\* frames left in the placeholders is not kept: display holds what the
\* current frame wrote.
Call(f) ==
    /\ pc = "idle"
    /\ frequency' = f
    /\ IF GreaterThan20(f)
       THEN /\ pc' = "L42"
            /\ status' = "running"
            /\ display' = Blank
       ELSE /\ pc' = "done"
            /\ status' = "NoSignal"
            /\ display' = NoSound
    /\ UNCHANGED <<n_Sa, log2_calls, locals>>

\* Lines 42-48, with the first read of the global n_Sa (line 43).  For
\* +infinity n and d are infinite and int(np.floor(d / 12)) raises
\* OverflowError, which ends the call.
Locate ==
    /\ pc = "L42"
    /\ log2_calls' = log2_calls + 1
    /\ IF frequency.unit = "Inf"
       THEN /\ pc' = "done"
            /\ status' = "raised"
            /\ UNCHANGED <<read43, n, d, k, m, swar, k_adjust, saptak>>
       ELSE LET nn == 6900 + Log2Cents(frequency)
                dd == nn - 100 * n_Sa
                k0 == FloorDiv12(dd)
                mm == dd - 1200 * k0
                r  == find_closest_swar(mm)
            IN  /\ read43' = n_Sa
                /\ n' = nn
                /\ d' = dd
                /\ m' = mm
                /\ swar' = r[1]
                /\ k_adjust' = r[2]
                /\ k' = k0 + r[2]
                /\ saptak' = SaptakLabel(k0 + r[2])
                /\ pc' = "L51"
                /\ UNCHANGED status
    /\ UNCHANGED <<n_Sa, display, frequency, read52, n_exact, abs_cents,
                   clarity>>

\* Lines 51-67, with the second read of the global n_Sa (line 52).
Grade ==
    /\ pc = "L51"
    /\ LET semitone_offset == swar_to_semitone[swar]
           ne == ExactNote(n_Sa, k, semitone_offset)
           cents == Log2Cents(frequency) - Log2Cents(ExactFrequency(ne))
       IN  /\ read52' = n_Sa
           /\ n_exact' = ne
           /\ abs_cents' = Abs(cents)
           /\ clarity' = Clarity(Abs(cents))
           /\ display' = Shown(saptak, swar, Clarity(Abs(cents)))
    /\ log2_calls' = log2_calls + 1
    /\ pc' = "done"
    /\ status' = "Detected"
    /\ UNCHANGED <<n_Sa, frequency, read43, n, d, k, m, swar, k_adjust,
                   saptak>>

\* The call ends (by return or by the exception) and its locals are gone;
\* the placeholders keep what was written.
Return ==
    /\ pc = "done"
    /\ pc' = "idle"
    /\ status' = "none"
    /\ frequency' = NoFrame
    /\ log2_calls' = 0
    /\ read43' = 0 /\ read52' = 0
    /\ n' = 0 /\ d' = 0 /\ k' = 0 /\ m' = 0
    /\ swar' = "" /\ k_adjust' = 0 /\ saptak' = ""
    /\ n_exact' = 0 /\ abs_cents' = 0 /\ clarity' = ""
    /\ UNCHANGED <<n_Sa, display>>

Next ==
    \/ \E scale \in DOMAIN scale_to_midi : Main(scale)
    \/ \E f \in Frequencies : Call(f)
    \/ Locate
    \/ Grade
    \/ Return

Spec == Init /\ [][Next]_vars

\* =================================================================== claims
\* The call has passed line 48: swar, k, m and saptak are set.
Located == pc = "L51" \/ (pc = "done" /\ status = "Detected")

\* The call has written the Detected display.
Graded == pc = "done" /\ status = "Detected"

\* The samples that are the exact pitch of semitone number x.
ExactPitchOf(x) ==
    {[unit |-> "cent", v |-> 100 * x]}
    \cup (IF x = 69 THEN {[unit |-> "Hz", v |-> 4400000]} ELSE {})
    \cup (IF x = 81 THEN {[unit |-> "Hz", v |-> 8800000]} ELSE {})

\* Octave shifts of the pitches offered, for every tonic.
Shifts == -6..6

\* C1: whenever the position m lies strictly between 11.5 and 12 semitones
\* the call reports Sa in the saptak floor(d/12) + 1.
C1_Wraparound ==
    (Located /\ m > 1150 /\ m < 1200) =>
        (swar = "Sa" /\ k = FloorDiv12(d) + 1)

\* C2: a frequency of at most 20 Hz ends as NoSignal with the "No sound
\* detected" display and no logarithm taken, and a finite frequency above
\* 20 Hz never ends as NoSignal: it ends as Detected with a swar, a saptak
\* label and a clarity.
C2_Floor ==
    /\ ((frequency.unit = "Hz" /\ frequency.v <= 200000)
        \/ (frequency.unit = "cent" /\ frequency.v <= 1548)) =>
          /\ pc = "done"
          /\ status = "NoSignal"
          /\ log2_calls = 0
          /\ display \in {NoSound, Blank}
    /\ (pc = "done" /\ ((frequency.unit = "Hz" /\ frequency.v > 200000)
                        \/ (frequency.unit = "cent" /\ frequency.v >= 1549)))
          =>
          /\ status = "Detected"
          /\ swar \in {swar_names[i] : i \in 1..7}
          /\ saptak # ""
          /\ clarity \in {"green", "yellow", "red"}
          /\ display \in {Shown(saptak, swar, clarity), Blank}

C2_Witness ==
    /\ pc = "done"
    /\ frequency = [unit |-> "Hz", v |-> 200000]
    /\ status = "NoSignal"
    /\ display = NoSound

\* C3: a frequency that is exactly the pitch of semitone t + 12*j + s, for
\* the tonic t the call worked with and a swar offset s, is reported as the
\* swar of offset s in saptak j (Mandra, Madhya, Taar for -1, 0, 1) with a
\* deviation of 0 cents and clarity green; 880 Hz under tonic 69 is Sa in
\* Taar.
C3_ExactPitch ==
    /\ (Graded /\ read43 = read52) =>
          \A i \in 1..7 : \A j \in Shifts :
              frequency \in ExactPitchOf(read43 + 12 * j + swar_semitones[i])
                  => /\ swar = swar_names[i]
                     /\ k = j
                     /\ (j = -1 => saptak = "Mandra")
                     /\ (j = 0 => saptak = "Madhya")
                     /\ (j = 1 => saptak = "Taar")
                     /\ abs_cents = 0
                     /\ clarity = "green"
    /\ (Located /\ read43 = 69 /\ frequency = [unit |-> "Hz", v |-> 8800000])
          => (swar = "Sa" /\ saptak = "Taar")

C3_Witness ==
    /\ Graded
    /\ read43 = 69 /\ read52 = 69
    /\ frequency = [unit |-> "Hz", v |-> 8800000]
    /\ swar = "Sa" /\ saptak = "Taar" /\ abs_cents = 0

\* C4: the tonic used for the distance d (line 43) and the tonic used for
\* the exact pitch n_exact (line 52) of one call are the same value.
C4_SingleTonic == Graded => read43 = read52

\* C5: the exact pitch of the reported swar in the reported saptak, for the
\* tonic the position was computed with, is within 600 cents of the input
\* pitch n.
C5_HalfOctave ==
    Located =>
        Abs(n - (100 * read43 + 1200 * k + 100 * swar_to_semitone[swar]))
            <= 600

\* C6: the result of find_closest_swar is the first of the candidates
\* 0,2,4,5,7,9,11,12 whose circular distance from m is minimal, and at the
\* halfway positions 1, 3, 6, 8, 10 it is the lower swar with no saptak
\* adjustment.
C6_FirstNearest ==
    Located =>
        LET cand == <<0, 200, 400, 500, 700, 900, 1100, 1200>>
            dist(i) == IF Abs(m - cand[i]) < 1200 - Abs(m - cand[i])
                       THEN Abs(m - cand[i]) ELSE 1200 - Abs(m - cand[i])
            first == CHOOSE i \in 1..8 :
                         /\ \A j \in 1..8 : dist(i) <= dist(j)
                         /\ \A j \in 1..(i - 1) : dist(j) > dist(i)
        IN  /\ m >= 0 /\ m < 1200
            /\ swar = IF first = 8 THEN "Sa" ELSE swar_names[first]
            /\ k_adjust = IF first = 8 THEN 1 ELSE 0
            /\ (m = 100 => swar = "Sa" /\ k_adjust = 0)
            /\ (m = 300 => swar = "Re" /\ k_adjust = 0)
            /\ (m = 600 => swar = "Ma" /\ k_adjust = 0)
            /\ (m = 800 => swar = "Pa" /\ k_adjust = 0)
            /\ (m = 1000 => swar = "Dha" /\ k_adjust = 0)

C6_Witness == Located /\ m = 100 /\ swar = "Sa" /\ k_adjust = 0

C8_Total ==
    /\ status # "raised"
    /\ (pc = "done" /\ (frequency.unit \in {"NaN", "Inf"}
                        \/ (frequency.unit = "Hz" /\ frequency.v < 0)))
          => status = "NoSignal"

\* C9: the saptak label is Mandra, Madhya, Taar for the final octave index
\* -1, 0, 1 and "Saptak k" for every other index k.
C9_SaptakLabel ==
    Located =>
        /\ k = FloorDiv12(d) + k_adjust
        /\ (k = -1 => saptak = "Mandra")
        /\ (k = 0 => saptak = "Madhya")
        /\ (k = 1 => saptak = "Taar")
        /\ (k \notin {-1, 0, 1} => saptak = "Saptak " \o ToString(k))
        /\ (k = 2 => saptak = "Saptak 2")
        /\ (k = -4 => saptak = "Saptak -4")

C9_Witness == Located /\ k = -4 /\ saptak = "Saptak -4"

\* C10: the octave index before the adjustment is floor(d/12), also for a
\* pitch below the tonic, and the position m = d - 12*k is in [0, 12).
C10_FloorPosition ==
    Located =>
        LET k0 == k - k_adjust
        IN  /\ d = n - 100 * read43
            /\ 1200 * k0 <= d /\ d < 1200 * (k0 + 1)
            /\ m = d - 1200 * k0
            /\ 0 <= m /\ m < 1200

C10_Witness == Located /\ d < 0 /\ d % 1200 # 0 /\ m > 0

\* The branch of find_closest_swar for the marker 12 is never taken.
NoAdjust == k_adjust = 0

====
